---- MODULE Spec2Model ----
(***************************************************************************)
(* State-machine model of securesigner/astro-starter.                      *)
(*                                                                         *)
(*   - ContactForm (src/src/components/ContactForm.tsx): field validators, *)
(*     change / blur / submit handlers, the outbound request and the       *)
(*     delayed redirect.                                                   *)
(*                                                                         *)
(* Strings are sequences of UTF-16 code units (integers), so that length,  *)
(* trim() and the regular expressions are computed as JavaScript computes  *)
(* them.  Validation error messages and enum values are TLA+ strings.      *)
(***************************************************************************)
EXTENDS Integers, Sequences, FiniteSets, TLC

VARIABLES
    \* ---- ContactForm component state (useState hooks) ----
    mounted,            \* the mount effect (useEffect [], line 144) has run
    formData,           \* [name, email, service, message]
    errors,             \* [name, email, message] -> message or Undefined
    touched,            \* [name, email, message] -> BOOLEAN
    status,             \* "idle" | "submitting" | "success" | "error"
    errorMessage,       \* banner text
    utmFields,          \* [utm_source .. utm_content]
    errorAnnouncement,  \* aria-live text
    \* ---- the form's environment ----
    search,             \* window.location.search, as a map key -> value
    gotcha,             \* value of the uncontrolled <input name="_gotcha">
    href,               \* window.location.href
    inFlight,           \* number of fetch() promises not yet settled
    body,               \* keys and values of the last request body
    requestCount,       \* number of fetch() calls made so far
    validSubmits,       \* number of submit events whose three fields validated
    lastOutcome,        \* how the most recently settled fetch() ended
    redirectTimers,     \* pending setTimeout callbacks: [delay, url]
    \* ---- validator harness (pure-function checks) ----
    vField, vValue, vResult,
    \* ---- RSS feed endpoint (src/src/pages/feed.xml.ts) ----
    feedPosts,          \* the blog collection, in collection order
    feedProd,           \* import.meta.env.PROD
    feedDone,           \* GET has run
    feedItems,          \* the items GET hands to rss()
    \* ---- social-image endpoint (src/unnamed/part_011) ----
    ogPosts,            \* the blog collection
    ogPathsDone,        \* getStaticPaths has run
    ogPaths,            \* the paths getStaticPaths returned
    ogRequest,          \* index in ogPaths of the path GET rendered last
    ogResponse,         \* the response of that GET, if any
    ogPrevResponse,     \* the response of the GET before it, if any
    \* ---- AnimatedCounter (src/postcss.config.cjs) ----
    counterProps,           \* value, startValue, duration, easing
    counterPhase,           \* "rendered", "mounted" or "unmounted"
    displayValue,           \* a rational [num, den]
    hasAnimated,
    isVisible,
    prefersReducedMotion,
    animationRef,           \* id of the frame requested last, if any
    startTimeRef,           \* time of the first frame, if any
    mountedRef,
    pendingFrames,          \* ids of requested, not yet run animation frames
    pendingTimers,          \* ids of set, not yet fired delay timers
    startCleanup,           \* timeoutId held by the start effect's cleanup
    observing,              \* an IntersectionObserver is connected
    observerHasAnimated,    \* hasAnimated as its callback closed over it
    observerInitial,        \* its first notification is still to come
    motionListening,        \* the media-query change listener is attached
    motionMatches,          \* (prefers-reduced-motion: reduce) matches
    reduceMotionClass,      \* html or body has the reduce-motion class
    intersecting,           \* the element is in the viewport
    clock,                  \* performance.now()
    \* ---- ThemeToggle (src/src/components/ThemeToggle.tsx) ----
    theme,
    themeMounted,           \* the effect of the first render has run
    themeListening,         \* the colour-scheme change listener is attached
    darkClass,              \* documentElement has the dark class
    storedTheme,            \* localStorage item "theme", if any
    storageAvailable,       \* localStorage calls do not throw
    systemDark,             \* (prefers-color-scheme: dark) matches
    themeLastEvent          \* "none", "click" or "system"

formVars == <<mounted, formData, errors, touched, status, errorMessage,
              utmFields, errorAnnouncement, search, gotcha, href, inFlight,
              body, requestCount, validSubmits, lastOutcome, redirectTimers>>
valVars  == <<vField, vValue, vResult>>
feedVars == <<feedPosts, feedProd, feedDone, feedItems>>
ogVars   == <<ogPosts, ogPathsDone, ogPaths, ogRequest, ogResponse,
             ogPrevResponse>>
counterVars == <<counterProps, counterPhase, displayValue, hasAnimated,
                 isVisible, prefersReducedMotion, animationRef, startTimeRef,
                 mountedRef, pendingFrames, pendingTimers, startCleanup,
                 observing, observerHasAnimated, observerInitial,
                 motionListening, motionMatches, reduceMotionClass,
                 intersecting, clock>>
themeVars == <<theme, themeMounted, themeListening, darkClass, storedTheme,
               storageAvailable, systemDark, themeLastEvent>>
vars     == <<formVars, valVars, feedVars, ogVars, counterVars, themeVars>>

-----------------------------------------------------------------------------
(* Strings *)

Repeat(c, n) == [i \in 1..n |-> c]

SetMin(S) == CHOOSE x \in S : \A y \in S : x <= y
SetMax(S) == CHOOSE x \in S : \A y \in S : x >= y

\* ECMAScript WhiteSpace + LineTerminator: what \s matches and what
\* String.prototype.trim strips.
WhiteSpace == {9, 10, 11, 12, 13, 32, 160, 5760} \cup (8192..8202)
              \cup {8232, 8233, 8239, 8287, 12288, 65279}

\* String.prototype.trim
Trim(s) ==
    LET keep == {i \in 1..Len(s) : s[i] \notin WhiteSpace}
    IN  IF keep = {} THEN <<>> ELSE SubSeq(s, SetMin(keep), SetMax(keep))

UpperCase == 65..90       \* A-Z
LowerCase == 97..122      \* a-z
Letters   == UpperCase \cup LowerCase
Digits    == 48..57       \* 0-9

\* the value `undefined` of an error slot
Undefined == "undefined"

-----------------------------------------------------------------------------
(* VALIDATION rules, ContactForm.tsx lines 48-61 *)

NameMinLength    == 2
NameMaxLength    == 100
MessageMinLength == 10
MessageMaxLength == 2000

\* [a-zA-Z\s'-]
NameClass == Letters \cup WhiteSpace \cup {39, 45}

\* /^[a-zA-Z\s'-]+$/.test(s)
NamePatternTest(s) ==
    /\ Len(s) >= 1
    /\ \A i \in 1..Len(s) : s[i] \in NameClass

\* [a-zA-Z0-9._%+-]
EmailLocalClass  == Letters \cup Digits \cup {46, 95, 37, 43, 45}
\* [a-zA-Z0-9.-]
EmailDomainClass == Letters \cup Digits \cup {46, 45}

\* Fault-injected variant of EmailPatternTest: [a-zA-Z]+ in place of {2,}.
EmailPatternTest_ShortTld(s) ==
    \E at \in 2..Len(s) :
        /\ s[at] = 64
        /\ \A i \in 1..(at - 1) : s[i] \in EmailLocalClass
        /\ \E dot \in (at + 2)..(Len(s) - 1) :
              /\ s[dot] = 46
              /\ \A i \in (at + 1)..(dot - 1) : s[i] \in EmailDomainClass
              /\ \A i \in (dot + 1)..Len(s) : s[i] \in Letters

\* /^[a-zA-Z0-9._%+-]+@[a-zA-Z0-9.-]+\.[a-zA-Z]{2,}$/.test(s)
\* at: position of the '@' (64); dot: position of the '.' (46) that the
\* pattern's \. matches.
EmailPatternTest(s) ==
    \E at \in 2..Len(s) :
        /\ s[at] = 64
        /\ \A i \in 1..(at - 1) : s[i] \in EmailLocalClass
        /\ \E dot \in (at + 2)..(Len(s) - 2) :
              /\ s[dot] = 46
              /\ \A i \in (at + 1)..(dot - 1) : s[i] \in EmailDomainClass
              /\ \A i \in (dot + 1)..Len(s) : s[i] \in Letters

-----------------------------------------------------------------------------
(* validateField, ContactForm.tsx lines 197-229 *)

\* Fault-injected variant of validateName: <= in the minimum-length test.
validateName_OffByOne(value) ==
    IF Trim(value) = <<>> THEN "Name is required"
    ELSE IF Len(value) <= NameMinLength THEN "Name must be at least 2 characters"
    ELSE IF Len(value) > NameMaxLength THEN "Name must be less than 100 characters"
    ELSE IF ~NamePatternTest(value) THEN "Please enter a valid name"
    ELSE Undefined

validateName(value) ==
    IF Trim(value) = <<>> THEN "Name is required"
    ELSE IF Len(value) < NameMinLength THEN "Name must be at least 2 characters"
    ELSE IF Len(value) > NameMaxLength THEN "Name must be less than 100 characters"
    ELSE IF ~NamePatternTest(value) THEN "Please enter a valid name"
    ELSE Undefined

validateEmail(value) ==
    IF Trim(value) = <<>> THEN "Email is required"
    ELSE IF ~EmailPatternTest(value) THEN "Please enter a valid email address"
    ELSE Undefined

\* Fault-injected variant of validateMessage: >= in the maximum-length test.
validateMessage_OffByOne(value) ==
    IF Trim(value) = <<>> THEN "Message is required"
    ELSE IF Len(value) < MessageMinLength
        THEN "Message must be at least 10 characters"
    ELSE IF Len(value) >= MessageMaxLength
        THEN "Message must be less than 2000 characters"
    ELSE Undefined

validateMessage(value) ==
    IF Trim(value) = <<>> THEN "Message is required"
    ELSE IF Len(value) < MessageMinLength
        THEN "Message must be at least 10 characters"
    ELSE IF Len(value) > MessageMaxLength
        THEN "Message must be less than 2000 characters"
    ELSE Undefined

validateField(field, value) ==
    CASE field = "name"    -> validateName(value)
      [] field = "email"   -> validateEmail(value)
      [] field = "message" -> validateMessage(value)
      [] OTHER             -> Undefined

-----------------------------------------------------------------------------
(* ContactForm: props, inputs and initial state *)

RequiredFields == {"name", "email", "message"}
UtmKeys == {"utm_source", "utm_medium", "utm_campaign", "utm_term", "utm_content"}
StatusValues == {"idle", "submitting", "success", "error"}

\* props (defaults, lines 95-96) and the page the form is rendered on
RedirectUrl == "/success/"
RedirectDelayMs == 1500
FormPage    == "/contact/"

\* values of the <SelectItem>s: SERVICE_OPTIONS without the "" entry (line 587)
ServiceValues == {"web-design", "consulting", "ongoing-support", "other"}

\* Values typed into the fields: "", "J", "Jo", "Al" / "a@b", "a@b.co" /
\* "aaaaaaaaa" (9), "aaaaaaaaaa" (10).
FormNameInputs    == {<<>>, <<74>>, <<74, 111>>, <<65, 108>>}
FormEmailInputs   == {<<97, 64, 98>>, <<97, 64, 98, 46, 99, 111>>}
FormMessageInputs == {Repeat(97, 9), Repeat(97, 10)}
FormServiceInputs == {"web-design"}
GotchaInputs      == {<<>>, <<98, 111, 116>>}

FormInputs(field) ==
    CASE field = "name"    -> FormNameInputs
      [] field = "email"   -> FormEmailInputs
      [] field = "message" -> FormMessageInputs

\* Query strings the page is opened with, as maps from parameter name to
\* value: none; ?utm_source=g&utm_medium=&utm_campaign=c&ref=x; all five set.
SearchInputs ==
    { [k \in {} |-> <<>>],
      [k \in {"utm_source", "utm_medium", "utm_campaign", "ref"} |->
          CASE k = "utm_source"   -> <<103>>
            [] k = "utm_medium"   -> <<>>
            [] k = "utm_campaign" -> <<99>>
            [] k = "ref"          -> <<120>>],
      [k \in UtmKeys |-> <<117>>] }

\* params.get(key) || ""
ParamOrEmpty(params, key) ==
    IF key \in DOMAIN params /\ params[key] # <<>> THEN params[key] ELSE <<>>

NoBody == [k \in {} |-> <<>>]
NotRun == "not run"

\* bound on the number of requests one form instance issues in a run
MaxRequests == 2

FormInitWith(query) ==
    /\ mounted = FALSE
    /\ formData = [name |-> <<>>, email |-> <<>>, service |-> "", message |-> <<>>]
    /\ errors = [name |-> Undefined, email |-> Undefined, message |-> Undefined]
    /\ touched = [name |-> FALSE, email |-> FALSE, message |-> FALSE]
    /\ status = "idle"
    /\ errorMessage = ""
    /\ utmFields = [k \in UtmKeys |-> <<>>]
    /\ errorAnnouncement = ""
    /\ search = query
    /\ gotcha = <<>>
    /\ href = FormPage
    /\ inFlight = 0
    /\ body = NoBody
    /\ requestCount = 0
    /\ validSubmits = 0
    /\ lastOutcome = "none"
    /\ redirectTimers = <<>>

FormInit == \E query \in SearchInputs : FormInitWith(query)

ValInit0 ==
    /\ vField = "name"
    /\ vValue = <<>>
    /\ vResult = NotRun

\* optional values: absent, or present with a value
Absent  == <<>>
Some(v) == <<v>>

\* the feed endpoint before any request, with an empty collection
FeedInit0 ==
    /\ feedPosts = <<>>
    /\ feedProd = FALSE
    /\ feedDone = FALSE
    /\ feedItems = <<>>

\* the social-image endpoint before the build, with an empty collection
OgInit0 ==
    /\ ogPosts = <<>>
    /\ ogPathsDone = FALSE
    /\ ogPaths = <<>>
    /\ ogRequest = 0
    /\ ogResponse = Absent
    /\ ogPrevResponse = Absent

\* AnimatedCounter props as written in a page
CounterProps(value, startValue, duration, easing) ==
    [value |-> value, startValue |-> startValue, duration |-> duration,
     easing |-> easing]

\* rationals, kept as numerator and positive denominator
Rat(num, den) == [num |-> num, den |-> den]

\* a counter rendered for the first time, effects not yet run
CounterInitWith(props, matches, class) ==
    /\ counterProps = props
    /\ counterPhase = "rendered"
    /\ displayValue = Rat(props.startValue, 1)
    /\ hasAnimated = FALSE
    /\ isVisible = FALSE
    /\ prefersReducedMotion = FALSE
    /\ animationRef = Absent
    /\ startTimeRef = Absent
    /\ mountedRef = TRUE
    /\ pendingFrames = {}
    /\ pendingTimers = {}
    /\ startCleanup = Absent
    /\ observing = FALSE
    /\ observerHasAnimated = FALSE
    /\ observerInitial = FALSE
    /\ motionListening = FALSE
    /\ motionMatches = matches
    /\ reduceMotionClass = class
    /\ intersecting = FALSE
    /\ clock = 0

\* the counter of the usage example, value={1500}
CounterInit0 ==
    CounterInitWith(CounterProps(1500, 0, 2000, "easeOutCubic"), FALSE, FALSE)

\* getStoredTheme(): the stored value if it is a theme, else light
ThemeValues == {"light", "dark", "system"}

getStoredTheme(stored, available) ==
    IF available /\ stored # Absent /\ stored[1] # "" /\ stored[1] \in ThemeValues
    THEN stored[1]
    ELSE "light"

\* a toggle rendered for the first time, effect not yet run
ThemeInitWith(stored, available, sysDark, dark) ==
    /\ theme = getStoredTheme(stored, available)
    /\ themeMounted = FALSE
    /\ themeListening = FALSE
    /\ darkClass = dark
    /\ storedTheme = stored
    /\ storageAvailable = available
    /\ systemDark = sysDark
    /\ themeLastEvent = "none"

\* a first visit: nothing stored, light system, no dark class
ThemeInit0 == ThemeInitWith(Absent, TRUE, FALSE, FALSE)

Init == FormInit /\ ValInit0 /\ FeedInit0 /\ OgInit0 /\ CounterInit0 /\ ThemeInit0

-----------------------------------------------------------------------------
(* ContactForm: effects and handlers *)

\* the document is still the form's page and the component has mounted
Interactive == mounted /\ href = FormPage

\* Fault-injected variant of InputsDisabled: the inputs are never disabled.
InputsDisabled_Never == FALSE

\* disabled={status === "submitting"} on the inputs
InputsDisabled == status = "submitting"

\* Fault-injected variant of SubmitDisabled: the button is never disabled.
SubmitDisabled_Never == FALSE

\* disabled={status === "submitting"} on the submit button
SubmitDisabled == status = "submitting"

\* useEffect(() => { setUtmFields(...) }, [])
MountEffect ==
    /\ ~mounted
    /\ mounted' = TRUE
    /\ utmFields' = [k \in UtmKeys |-> ParamOrEmpty(search, k)]
    /\ UNCHANGED <<formData, errors, touched, status, errorMessage,
                   errorAnnouncement, search, gotcha, href, inFlight, body,
                   requestCount, validSubmits, lastOutcome, redirectTimers,
                   valVars, feedVars, ogVars,
                   counterVars, themeVars>>

\* Fault-injected variants of handleChange: the change handler marks the
\* field touched and validates it; the change handler never revalidates.
handleChange_Touches(field, value) ==
    /\ Interactive /\ ~InputsDisabled
    /\ formData' = [formData EXCEPT ![field] = value]
    /\ touched' = [touched EXCEPT ![field] = TRUE]
    /\ errors' = [errors EXCEPT ![field] = validateField(field, value)]
    /\ UNCHANGED <<mounted, status, errorMessage, utmFields,
                   errorAnnouncement, search, gotcha, href, inFlight, body,
                   requestCount, validSubmits, lastOutcome, redirectTimers,
                   valVars, feedVars, ogVars,
                   counterVars, themeVars>>

handleChange_NoRevalidate(field, value) ==
    /\ Interactive /\ ~InputsDisabled
    /\ formData' = [formData EXCEPT ![field] = value]
    /\ UNCHANGED <<mounted, errors, touched, status, errorMessage, utmFields,
                   errorAnnouncement, search, gotcha, href, inFlight, body,
                   requestCount, validSubmits, lastOutcome, redirectTimers,
                   valVars, feedVars, ogVars,
                   counterVars, themeVars>>

handleChange(field, value) ==
    /\ Interactive /\ ~InputsDisabled
    /\ formData' = [formData EXCEPT ![field] = value]
    /\ errors' = IF touched[field]
                 THEN [errors EXCEPT ![field] = validateField(field, value)]
                 ELSE errors
    /\ UNCHANGED <<mounted, touched, status, errorMessage, utmFields,
                   errorAnnouncement, search, gotcha, href, inFlight, body,
                   requestCount, validSubmits, lastOutcome, redirectTimers,
                   valVars, feedVars, ogVars,
                   counterVars, themeVars>>

\* <Select onValueChange={...}>
handleServiceChange(value) ==
    /\ Interactive /\ ~InputsDisabled
    /\ formData' = [formData EXCEPT !.service = value]
    /\ UNCHANGED <<mounted, errors, touched, status, errorMessage, utmFields,
                   errorAnnouncement, search, gotcha, href, inFlight, body,
                   requestCount, validSubmits, lastOutcome, redirectTimers,
                   valVars, feedVars, ogVars,
                   counterVars, themeVars>>

\* Fault-injected variant of handleBlur: the blur handler validates the
\* whole form instead of the blurred field.
handleBlur_ValidatesAll(field) ==
    /\ Interactive /\ ~InputsDisabled
    /\ touched' = [touched EXCEPT ![field] = TRUE]
    /\ errors' = [f \in RequiredFields |-> validateField(f, formData[f])]
    /\ UNCHANGED <<mounted, formData, status, errorMessage, utmFields,
                   errorAnnouncement, search, gotcha, href, inFlight, body,
                   requestCount, validSubmits, lastOutcome, redirectTimers,
                   valVars, feedVars, ogVars,
                   counterVars, themeVars>>

\* e.target.value of a controlled input is formData[field]
handleBlur(field) ==
    /\ Interactive /\ ~InputsDisabled
    /\ touched' = [touched EXCEPT ![field] = TRUE]
    /\ errors' = [errors EXCEPT ![field] = validateField(field, formData[field])]
    /\ UNCHANGED <<mounted, formData, status, errorMessage, utmFields,
                   errorAnnouncement, search, gotcha, href, inFlight, body,
                   requestCount, validSubmits, lastOutcome, redirectTimers,
                   valVars, feedVars, ogVars,
                   counterVars, themeVars>>

\* the hidden honeypot input is uncontrolled: a script can fill it at any time
GotchaInput(value) ==
    /\ Interactive
    /\ gotcha' = value
    /\ UNCHANGED <<mounted, formData, errors, touched, status, errorMessage,
                   utmFields, errorAnnouncement, search, href, inFlight, body,
                   requestCount, validSubmits, lastOutcome, redirectTimers,
                   valVars, feedVars, ogVars,
                   counterVars, themeVars>>

\* showError(field): touched[field] && !!errors[field]
showError(field) == touched[field] /\ errors[field] # Undefined

\* ariaInvalid(field): the aria-invalid attribute, "true", "false" or absent
ariaInvalid(field) ==
    IF touched[field]
    THEN (IF errors[field] # Undefined THEN "true" ELSE "false")
    ELSE Undefined

\* newErrors of validateForm / handleSubmit
FormErrorsOf(fd) ==
    [name    |-> validateField("name", fd.name),
     email   |-> validateField("email", fd.email),
     message |-> validateField("message", fd.message)]

\* Fault-injected variant of validateFormResult: .every in place of .some.
validateFormResult_Every(newErrors) ==
    ~(\A f \in RequiredFields : newErrors[f] # Undefined)

\* !Object.values(newErrors).some((error) => error !== undefined)
validateFormResult(newErrors) ==
    ~(\E f \in RequiredFields : newErrors[f] # Undefined)

\* Object.values(newErrors).filter(Boolean).length
ErrorCount(newErrors) == Cardinality({f \in RequiredFields : newErrors[f] # Undefined})

AnnouncementFor(errorCount) ==
    CASE errorCount = 1 ->
           "There is 1 error in the form. Please correct it before submitting."
      [] errorCount = 0 ->
           "There are 0 errors in the form. Please correct them before submitting."
      [] errorCount = 2 ->
           "There are 2 errors in the form. Please correct them before submitting."
      [] errorCount = 3 ->
           "There are 3 errors in the form. Please correct them before submitting."

\* Fault-injected variant of BuildPayload: the `if (value)` test is missing.
BuildPayload_AllUtm(fd, utm) ==
    [k \in {"name", "email", "service", "message"} \cup UtmKeys |->
        IF k \in UtmKeys THEN utm[k] ELSE fd[k]]

\* the payload object: the four form fields, then each non-empty utm field
BuildPayload(fd, utm) ==
    LET keys == {"name", "email", "service", "message"}
                \cup {k \in UtmKeys : utm[k] # <<>>}
    IN  [k \in keys |-> IF k \in UtmKeys THEN utm[k] ELSE fd[k]]

SubmissionErrorText == "Something went wrong. Please try again or email us directly."

\* Fault-injected variant of handleSubmit: the banner text is not cleared.
handleSubmit_KeepsMessage ==
    /\ Interactive /\ ~SubmitDisabled
    /\ touched' = [name |-> TRUE, email |-> TRUE, message |-> TRUE]
    /\ errors' = FormErrorsOf(formData)
    /\ validSubmits' = IF \A f \in RequiredFields :
                             validateField(f, formData[f]) = Undefined
                       THEN validSubmits + 1 ELSE validSubmits
    /\ IF ~validateFormResult(FormErrorsOf(formData))
       THEN /\ errorAnnouncement' =
                   AnnouncementFor(ErrorCount(FormErrorsOf(formData)))
            /\ UNCHANGED <<status, errorMessage, inFlight, body, requestCount>>
       ELSE /\ requestCount < MaxRequests
            /\ errorAnnouncement' = ""
            /\ status' = "submitting"
            /\ UNCHANGED errorMessage
            /\ body' = BuildPayload(formData, utmFields)
            /\ inFlight' = inFlight + 1
            /\ requestCount' = requestCount + 1
    /\ UNCHANGED <<mounted, formData, utmFields, search, gotcha, href,
                   lastOutcome, redirectTimers, valVars, feedVars, ogVars,
                   counterVars, themeVars>>

\* handleSubmit: validate, then build the payload and start the request
handleSubmit ==
    /\ Interactive /\ ~SubmitDisabled
    /\ touched' = [name |-> TRUE, email |-> TRUE, message |-> TRUE]
    /\ errors' = FormErrorsOf(formData)
    /\ validSubmits' = IF \A f \in RequiredFields :
                             validateField(f, formData[f]) = Undefined
                       THEN validSubmits + 1 ELSE validSubmits
    /\ IF ~validateFormResult(FormErrorsOf(formData))
       THEN /\ errorAnnouncement' =
                   AnnouncementFor(ErrorCount(FormErrorsOf(formData)))
            /\ UNCHANGED <<status, errorMessage, inFlight, body, requestCount>>
       ELSE /\ requestCount < MaxRequests
            /\ errorAnnouncement' = ""
            /\ status' = "submitting"
            /\ errorMessage' = ""
            /\ body' = BuildPayload(formData, utmFields)
            /\ inFlight' = inFlight + 1
            /\ requestCount' = requestCount + 1
    /\ UNCHANGED <<mounted, formData, utmFields, search, gotcha, href,
                   lastOutcome, redirectTimers, valVars, feedVars, ogVars,
                   counterVars, themeVars>>

\* the continuation of handleSubmit after `await fetch(...)`:
\* outcome "ok" = resolved with response.ok, "not_ok" = resolved with
\* !response.ok (throws inside try), "rejected" = the promise rejected.
FetchOutcomes == {"ok", "not_ok", "rejected"}

\* response.ok: setStatus("success"), then the redirect timer (lines 335-342)
ResponseOkBranch ==
    /\ status' = "success"
    /\ redirectTimers' = Append(redirectTimers,
           [delay |-> RedirectDelayMs, url |-> RedirectUrl])
    /\ inFlight' = inFlight - 1
    /\ UNCHANGED <<errorMessage, requestCount>>

\* Fault-injected variants of CatchBranch: the handler re-issues the request
\* itself; the handler forgets setStatus("error"); the handler also redirects.
CatchBranch_Retry ==
    /\ requestCount < MaxRequests
    /\ requestCount' = requestCount + 1
    /\ UNCHANGED <<status, errorMessage, inFlight, redirectTimers>>

CatchBranch_NoStatus ==
    /\ errorMessage' = SubmissionErrorText
    /\ inFlight' = inFlight - 1
    /\ UNCHANGED <<status, redirectTimers, requestCount>>

CatchBranch_Redirects ==
    /\ status' = "error"
    /\ errorMessage' = SubmissionErrorText
    /\ redirectTimers' = Append(redirectTimers,
           [delay |-> RedirectDelayMs, url |-> RedirectUrl])
    /\ inFlight' = inFlight - 1
    /\ UNCHANGED requestCount

\* catch (error): setStatus("error"), setErrorMessage(...) (lines 346-355)
CatchBranch ==
    /\ status' = "error"
    /\ errorMessage' = SubmissionErrorText
    /\ inFlight' = inFlight - 1
    /\ UNCHANGED <<redirectTimers, requestCount>>

FetchSettled(outcome) ==
    /\ href = FormPage
    /\ inFlight > 0
    /\ lastOutcome' = outcome
    /\ IF outcome = "ok" THEN ResponseOkBranch ELSE CatchBranch
    /\ UNCHANGED <<mounted, formData, errors, touched, utmFields,
                   errorAnnouncement, search, gotcha, href, body,
                   validSubmits, valVars, feedVars, ogVars,
                   counterVars, themeVars>>

\* all timers of one delay fire in the order they were set
\* setTimeout(() => { window.location.href = redirectUrl; }, 1500)
RedirectTimerFires ==
    /\ href = FormPage
    /\ redirectTimers # <<>>
    /\ redirectTimers' = Tail(redirectTimers)
    /\ href' = Head(redirectTimers).url
    /\ UNCHANGED <<mounted, formData, errors, touched, status, errorMessage,
                   utmFields, errorAnnouncement, search, gotcha, inFlight,
                   body, requestCount, validSubmits, lastOutcome, valVars, feedVars, ogVars,
                   counterVars, themeVars>>

Next ==
    \/ MountEffect
    \/ \E field \in RequiredFields : \E value \in FormInputs(field) :
          handleChange(field, value)
    \/ \E value \in FormServiceInputs : handleServiceChange(value)
    \/ \E field \in RequiredFields : handleBlur(field)
    \/ \E value \in GotchaInputs : GotchaInput(value)
    \/ handleSubmit
    \/ \E outcome \in FetchOutcomes : FetchSettled(outcome)
    \/ RedirectTimerFires

Spec == Init /\ [][Next]_vars

\* the browser runs a timer callback that is due
FairSpec == Spec /\ WF_vars(RedirectTimerFires)

-----------------------------------------------------------------------------
(* Properties of the contact form *)

FieldFails(f) == validateField(f, formData[f]) # Undefined
SomeFieldFails == \E f \in RequiredFields : FieldFails(f)
AllFieldsPass  == \A f \in RequiredFields : ~FieldFails(f)

\* a step in which a fetch() settles with the given outcomes
Settles(outcomes) == inFlight' < inFlight /\ lastOutcome' \in outcomes

\* C1: a submit of a form in which name, email or message fails validation
\* issues no request, marks the three required fields touched and leaves
\* status as it was (not submitting).
C1_InvalidSubmitBlocked ==
    [][(handleSubmit /\ SomeFieldFails) =>
          /\ requestCount' = requestCount
          /\ inFlight' = inFlight
          /\ \A f \in RequiredFields : touched'[f]
          /\ status' = status
          /\ status' # "submitting"]_vars

\* an invalid submit has happened: announced, all touched, nothing sent
C1_Witness ==
    /\ errorAnnouncement # ""
    /\ \A f \in RequiredFields : touched[f]
    /\ SomeFieldFails
    /\ status = "idle"
    /\ requestCount = 0

\* C2: the number of requests issued equals the number of submits that
\* passed validation, and a request is issued only by a submit step that
\* passes validation, one request per such step (no automatic retry).
C2_OneRequestPerValidSubmit ==
    /\ [](requestCount = validSubmits)
    /\ [][requestCount' # requestCount =>
             /\ handleSubmit
             /\ AllFieldsPass
             /\ requestCount' = requestCount + 1]_vars

\* two valid submits, the first of which failed, and two requests
C2_Witness ==
    /\ requestCount = 2
    /\ validSubmits = 2
    /\ lastOutcome \in {"not_ok", "rejected"}

\* C3: while a request is pending, status is submitting and the submit
\* button is disabled; at most one request is in flight.
C3_SingleRequestInFlight ==
    /\ inFlight <= 1
    /\ inFlight = 1 => (status = "submitting" /\ SubmitDisabled)

\* the second request of a form instance is pending
C3_Witness ==
    /\ inFlight = 1
    /\ requestCount = 2
    /\ href = FormPage

AllowedStatusSteps ==
    { <<"idle", "submitting">>, <<"submitting", "success">>,
      <<"submitting", "error">>, <<"error", "submitting">> }

\* C4: status starts at idle and changes only along idle->submitting,
\* submitting->success, submitting->error and error->submitting: it never
\* returns to idle and success is terminal.
C4_StatusTransitions ==
    [][status' # status => <<status, status'>> \in AllowedStatusSteps]_vars

\* C5: a fetch that resolves ok sets status to success and schedules exactly
\* one redirect to redirectUrl with delay 1500; a redirect is scheduled only
\* by such a step and performed only from a scheduled timer; a scheduled
\* redirect eventually happens.
C5_RedirectAfterSuccess ==
    /\ [][Settles({"ok"}) =>
             /\ status' = "success"
             /\ redirectTimers' = Append(redirectTimers,
                    [delay |-> 1500, url |-> "/success/"])]_vars
    /\ [][Len(redirectTimers') > Len(redirectTimers) =>
             /\ Settles({"ok"})
             /\ status' = "success"]_vars
    /\ [][href' # href =>
             /\ redirectTimers # <<>>
             /\ href' = "/success/"]_vars
    /\ (redirectTimers # <<>>) ~> (href = "/success/")

\* the redirect has been performed after an ok response
C5_Witness ==
    /\ href = RedirectUrl
    /\ lastOutcome = "ok"
    /\ status = "success"

\* C6: a fetch that rejects or resolves not-ok sets status to error with a
\* non-empty message, schedules no redirect and re-enables the submit
\* button; a valid submit in status error issues a new request; status is
\* never submitting without a pending request.
C6_FailureHandledLocally ==
    /\ [][Settles({"not_ok", "rejected"}) =>
             /\ status' = "error"
             /\ errorMessage' # ""
             /\ redirectTimers' = redirectTimers
             /\ ~SubmitDisabled']_vars
    /\ [][(handleSubmit /\ status = "error" /\ AllFieldsPass) =>
             /\ requestCount' = requestCount + 1
             /\ inFlight' = 1
             /\ status' = "submitting"]_vars
    /\ [](status = "submitting" => inFlight > 0)

\* a re-submission after a failed request is pending
C6_Witness ==
    /\ status = "submitting"
    /\ requestCount = 2
    /\ inFlight = 1
    /\ lastOutcome \in {"not_ok", "rejected"}

\* C7: every request body carries the honeypot field _gotcha with the value
\* the field holds when the request is issued.
C7_HoneypotInBody ==
    [][requestCount' # requestCount =>
          /\ "_gotcha" \in DOMAIN body'
          /\ body'["_gotcha"] = gotcha]_vars

\* C8: a request body has no keys but name, email, service, message and
\* utm_*; name, email and message carry the form values of the submit; a
\* utm_* key is present exactly when the mount-time query parameter was
\* non-empty, with that value.
C8_BodyKeysAndValues ==
    [][requestCount' # requestCount =>
          /\ DOMAIN body' \subseteq
                {"name", "email", "service", "message"} \cup UtmKeys
          /\ \A f \in RequiredFields :
                f \in DOMAIN body' /\ body'[f] = formData[f]
          /\ \A k \in UtmKeys :
                /\ k \in DOMAIN body' <=>
                      (k \in DOMAIN search /\ search[k] # <<>>)
                /\ k \in DOMAIN body' => body'[k] = search[k]]_vars

\* a request sent from ?utm_source=g&utm_medium=&utm_campaign=c&ref=x
C8_Witness ==
    /\ requestCount > 0
    /\ "utm_medium" \in DOMAIN search
    /\ "utm_source" \in DOMAIN body
    /\ "utm_medium" \notin DOMAIN body
    /\ body["name"] = <<65, 108>>

\* C12: an error is displayed for a required field (inline message,
\* aria-invalid "true") only if the field is touched, so change events alone
\* never show one; a field becomes touched only by its own blur or by a
\* submit.
C12_ErrorsOnlyWhenTouched ==
    /\ [](\A f \in RequiredFields :
             ~touched[f] => (~showError(f) /\ ariaInvalid(f) # "true"
                             /\ errors[f] = Undefined))
    /\ [][\A f \in RequiredFields :
             (~touched[f] /\ touched'[f]) => (handleBlur(f) \/ handleSubmit)]_vars

\* an invalid value typed into a field that was never blurred shows no
\* error, while a blurred field shows one
C12_Witness ==
    /\ ~touched["email"]
    /\ formData["email"] = <<97, 64, 98>>
    /\ ~showError("email")
    /\ showError("name")
    /\ errorAnnouncement = ""

\* C13: the stored error of every touched required field is the validator's
\* result on the field's current value (so correcting a touched field clears
\* its error on the change event).
C13_TouchedErrorsCurrent ==
    \A f \in RequiredFields :
        touched[f] => errors[f] = validateField(f, formData[f])

\* name was blurred and holds a valid value with no error, with no submit
\* having touched the other fields
C13_Witness ==
    /\ touched["name"]
    /\ ~touched["email"]
    /\ formData["name"] = <<74, 111>>
    /\ errors["name"] = Undefined

\* C14: a change or blur of one field leaves the values, touched flags and
\* errors of the other fields, and the status, unchanged.
C14_FieldEventsAreLocal ==
    [][\A f \in RequiredFields :
          ((\E v \in FormInputs(f) : handleChange(f, v)) \/ handleBlur(f)) =>
              /\ \A g \in RequiredFields \ {f} :
                    /\ formData'[g] = formData[g]
                    /\ touched'[g] = touched[g]
                    /\ errors'[g] = errors[g]
              /\ formData'["service"] = formData["service"]
              /\ status' = status]_vars

\* name has been blurred with an error while email, holding an invalid
\* value, has neither a touched flag nor an error
C14_Witness ==
    /\ touched["name"]
    /\ errors["name"] # Undefined
    /\ ~touched["email"]
    /\ formData["email"] = <<97, 64, 98>>
    /\ errors["email"] = Undefined

-----------------------------------------------------------------------------
(* The validators as pure functions: validateField applied to one input *)

\* bounds of the validator inputs
MaxChunks   == 2
MaxEmailLen == 6

\* a name input is up to MaxChunks runs of one character each; with runs of
\* 1, 2 and 99 the lengths 0..4, 99..101 and 198 all occur.
\* a Z 1 space tab NBSP ' - @ e-acute
NameAlphabet == {97, 90, 49, 32, 9, 160, 39, 45, 64, 233}
RunLengths   == {1, 2, 99}
Runs(alphabet) == {Repeat(c, n) : c \in alphabet, n \in RunLengths}

RECURSIVE RunStrings(_, _)
RunStrings(alphabet, k) ==
    IF k = 0 THEN {<<>>}
    ELSE LET shorter == RunStrings(alphabet, k - 1)
         IN  shorter \cup {s \o r : s \in shorter, r \in Runs(alphabet)}

\* an email input is any string of up to MaxEmailLen of: a 1 @ . _ space
EmailAlphabet == {97, 49, 64, 46, 95, 32}
StringsUpTo(alphabet, n) == UNION {[1..k -> alphabet] : k \in 0..n}

\* a message input is any string of up to MaxMessagePrefix of: a space \n,
\* followed by a run of one of them; the lengths 0..2, 8..11 and 1998..2001
\* all occur.
MaxMessagePrefix  == 2
MessageAlphabet   == {97, 32, 10}
MessageRunLengths == {0, 8, 9, 1998, 1999}
MessageInputs ==
    {s \o Repeat(c, n) : s \in StringsUpTo(MessageAlphabet, MaxMessagePrefix),
                         c \in MessageAlphabet, n \in MessageRunLengths}

ValidatorInputs(field) ==
    CASE field = "name"    -> RunStrings(NameAlphabet, MaxChunks)
      [] field = "email"   -> StringsUpTo(EmailAlphabet, MaxEmailLen)
      [] field = "message" -> MessageInputs

ValInit ==
    /\ vField \in {"name", "email", "message"}
    /\ vValue \in ValidatorInputs(vField)
    /\ vResult = NotRun

Validate ==
    /\ vResult = NotRun
    /\ vResult' = validateField(vField, vValue)
    /\ UNCHANGED <<vField, vValue, formVars, feedVars, ogVars,
                   counterVars, themeVars>>

NextValidate == Validate

InitValidate ==
    /\ FormInitWith([k \in {} |-> <<>>]) /\ ValInit /\ FeedInit0 /\ OgInit0
    /\ CounterInit0 /\ ThemeInit0

SpecValidate == InitValidate /\ [][NextValidate]_vars

-----------------------------------------------------------------------------
(* Properties of the validators *)

Chars(s) == {s[i] : i \in 1..Len(s)}

\* C9, as stated: the name validator returns an error for every input
\* shorter than 2 characters or containing a character outside letters,
\* space (32), apostrophe (39) and hyphen (45), and no error for every input
\* of length 2 to 100 made only of those characters.
C9_NameValidatorAsStated ==
    (vField = "name" /\ vResult # NotRun) =>
        /\ (Len(vValue) < 2 \/ ~(Chars(vValue) \subseteq Letters \cup {32, 39, 45}))
              => vResult # Undefined
        /\ (Len(vValue) \in 2..100 /\ Chars(vValue) \subseteq Letters \cup {32, 39, 45})
              => vResult = Undefined

\* C9, amended: the name validator returns an error for every input shorter
\* than 2 characters, for every input made of whitespace only, and for
\* every input containing a character outside letters, whitespace (what \s
\* matches), apostrophe and hyphen; it returns no error for every input of
\* length 2 to 100 made only of those characters and not of whitespace only.
C9_NameValidator ==
    (vField = "name" /\ vResult # NotRun) =>
        /\ (\/ Len(vValue) < 2
            \/ Chars(vValue) \subseteq WhiteSpace
            \/ ~(Chars(vValue) \subseteq Letters \cup WhiteSpace \cup {39, 45}))
              => vResult # Undefined
        /\ (/\ Len(vValue) \in 2..100
            /\ Chars(vValue) \subseteq Letters \cup WhiteSpace \cup {39, 45}
            /\ ~(Chars(vValue) \subseteq WhiteSpace))
              => vResult = Undefined

\* a 100-character name with a tab in it has been accepted
C9_Witness ==
    /\ vField = "name"
    /\ Len(vValue) = 100
    /\ 9 \in Chars(vValue)
    /\ vResult = Undefined

\* positions of '@' (64) in s, and of '.' (46) after the last '@'
AtPositions(s)  == {i \in 1..Len(s) : s[i] = 64}
DotPositions(s) == {i \in 1..Len(s) : s[i] = 46 /\ i > SetMax(AtPositions(s))}

\* the top-level domain segment: what follows the last dot of the domain
\* (nothing when the domain has no dot)
TldSegment(s) ==
    IF DotPositions(s) = {} THEN <<>>
    ELSE SubSeq(s, SetMax(DotPositions(s)) + 1, Len(s))

\* s is local@domain.tld: one '@', a non-empty local part of the characters
\* the pattern allows there, a non-empty domain of letters, digits, dots and
\* hyphens before its last dot, and a TLD of at least 2 letters after it
IsLocalAtDomainTld(s) ==
    /\ Cardinality(AtPositions(s)) = 1
    /\ DotPositions(s) # {}
    /\ LET at  == SetMax(AtPositions(s))
           dot == SetMax(DotPositions(s))
       IN  /\ at > 1
           /\ Chars(SubSeq(s, 1, at - 1)) \subseteq
                 Letters \cup Digits \cup {46, 95, 37, 43, 45}
           /\ dot > at + 1
           /\ Chars(SubSeq(s, at + 1, dot - 1)) \subseteq
                 Letters \cup Digits \cup {46, 45}
           /\ Len(TldSegment(s)) >= 2
           /\ Chars(TldSegment(s)) \subseteq Letters

\* C10: the email validator returns an error for every string without '@'
\* and for every string whose top-level domain segment is shorter than 2
\* characters, and no error for strings of the form local@domain.tld with a
\* TLD of at least 2 letters.
C10_EmailValidator ==
    (vField = "email" /\ vResult # NotRun) =>
        /\ AtPositions(vValue) = {} => vResult # Undefined
        /\ (AtPositions(vValue) # {} /\ Len(TldSegment(vValue)) < 2)
              => vResult # Undefined
        /\ IsLocalAtDomainTld(vValue) => vResult = Undefined

\* an address with a one-character TLD has been rejected
C10_Witness ==
    /\ vField = "email"
    /\ vResult = "Please enter a valid email address"
    /\ IsLocalAtDomainTld(vValue \o <<97>>)
    /\ Len(TldSegment(vValue)) = 1

\* C11: the message validator returns no error exactly when the message is
\* non-empty after trimming and its length is between 10 and 2000 inclusive.
C11_MessageValidator ==
    (vField = "message" /\ vResult # NotRun) =>
        (vResult = Undefined <=>
            /\ ~(Chars(vValue) \subseteq WhiteSpace)
            /\ Len(vValue) >= 10
            /\ Len(vValue) <= 2000)

\* a message of exactly 2000 characters has been accepted
C11_Witness ==
    /\ vField = "message"
    /\ Len(vValue) = 2000
    /\ vResult = Undefined

-----------------------------------------------------------------------------
(* RSS feed endpoint, src/src/pages/feed.xml.ts *)

\* SITE.author (src/src/data/site.ts)
SiteAuthor == "Your Name"

\* Fault-injected variant of FeedFilter: keeps only draft === false.
FeedFilter_OnlyFalse(data, prod) ==
    IF prod THEN data.draft = Some(FALSE) ELSE TRUE

\* import.meta.env.PROD ? data.draft !== true : true
FeedFilter(data, prod) ==
    IF prod THEN data.draft # Some(TRUE) ELSE TRUE

\* getCollection('blog', filter): the entries the filter keeps, in order
GetBlogCollection(posts, prod) ==
    SelectSeq(posts, LAMBDA post : FeedFilter(post.data, prod))

\* Fault-injected variant of ComparePosts: ascending.
ComparePosts_Ascending(a, b) == a.data.date - b.data.date

\* (a, b) => new Date(b.data.date).getTime() - new Date(a.data.date).getTime()
\* a date is held as its time value
ComparePosts(a, b) == b.data.date - a.data.date

\* Array.prototype.sort is stable: an element goes before the first element
\* that the comparator orders after it, and after every other one.
InsertPost(sorted, x) ==
    LET after == {i \in 1..Len(sorted) : ComparePosts(sorted[i], x) > 0}
        pos   == IF after = {} THEN Len(sorted) + 1 ELSE SetMin(after)
    IN  SubSeq(sorted, 1, pos - 1) \o <<x>> \o SubSeq(sorted, pos, Len(sorted))

RECURSIVE SortPosts(_)
SortPosts(posts) ==
    IF posts = <<>> THEN <<>>
    ELSE InsertPost(SortPosts(SubSeq(posts, 1, Len(posts) - 1)),
                    posts[Len(posts)])

\* a ?? b on an optional a
Coalesce(opt, default) == IF opt # Absent THEN opt[1] ELSE default

\* Fault-injected variant of ItemDescription: || in place of ??.
ItemDescription_Or(data) ==
    IF data.excerpt # Absent /\ data.excerpt[1] # "" THEN data.excerpt[1]
    ELSE IF data.description # Absent /\ data.description[1] # ""
         THEN data.description[1]
    ELSE ""

\* post.data.excerpt ?? post.data.description ?? ''
ItemDescription(data) ==
    Coalesce(data.excerpt, Coalesce(data.description, ""))

\* Fault-injected variant of ItemLink: the trailing slash is missing.
ItemLink_NoSlash(slug) == "/blog/" \o slug

\* `/blog/${post.slug}/`
ItemLink(slug) == "/blog/" \o slug \o "/"

\* the object built for one post in sortedPosts.map(...)
MapPostToItem(post) ==
    [title       |-> post.data.title,
     pubDate     |-> post.data.date,
     description |-> ItemDescription(post.data),
     link        |-> ItemLink(post.slug),
     categories  |-> Coalesce(post.data.categories, <<>>),
     author      |-> Coalesce(post.data.author, SiteAuthor)]

\* items: sortedPosts.map(...)
FeedItemsOf(posts, prod) ==
    LET sortedPosts == SortPosts(GetBlogCollection(posts, prod))
    IN  [i \in 1..Len(sortedPosts) |-> MapPostToItem(sortedPosts[i])]

\* bound on the number of posts of a collection
MaxPosts == 3

\* dates, as days since the epoch: 2024-01-01, 2024-03-15, 2024-06-15
DateInputs  == {19723, 19797, 19889}
DraftInputs == {Absent, Some(FALSE), Some(TRUE)}

\* the k-th entry of a collection: slugs come from file names, so they differ
SlugOf(k)  == "post-" \o ToString(k)
TitleOf(k) == "Post " \o ToString(k)

PostWith(k, date, draft, excerpt, description, categories, author) ==
    [slug |-> SlugOf(k),
     data |-> [title |-> TitleOf(k), date |-> date, draft |-> draft,
               excerpt |-> excerpt, description |-> description,
               categories |-> categories, author |-> author]]

\* collections of up to MaxPosts posts that differ in date and draft flag
ListPostAt(k) ==
    {PostWith(k, date, draft, Some("Test excerpt"), Some("Test description"),
              Some(<<"data">>), Some("Test Author")) :
        date \in DateInputs, draft \in DraftInputs}

RECURSIVE PostLists(_)
PostLists(n) ==
    IF n = 0 THEN {<<>>}
    ELSE LET shorter == PostLists(n - 1)
         IN  shorter \cup {Append(l, p) : l \in {x \in shorter : Len(x) = n - 1},
                                         p \in ListPostAt(n)}

\* one-post collections that differ in the optional fields
OptionalFieldPosts ==
    {<<PostWith(1, 19889, Some(FALSE), excerpt, description, categories, author)>> :
        excerpt \in {Absent, Some(""), Some("This is the excerpt")},
        description \in {Absent, Some(""), Some("This is SEO description")},
        categories \in {Absent, Some(<<>>), Some(<<"data", "research">>)},
        author \in {Absent, Some("Test Author")}}

FeedInputs == PostLists(MaxPosts) \cup OptionalFieldPosts

FeedInit ==
    /\ feedPosts \in FeedInputs
    /\ feedProd \in BOOLEAN
    /\ feedDone = FALSE
    /\ feedItems = <<>>

\* export async function GET(context)
FeedGET ==
    /\ ~feedDone
    /\ feedDone' = TRUE
    /\ feedItems' = FeedItemsOf(feedPosts, feedProd)
    /\ UNCHANGED <<feedPosts, feedProd, formVars, valVars, ogVars,
                   counterVars, themeVars>>

NextFeed == FeedGET

InitFeed ==
    /\ FormInitWith([k \in {} |-> <<>>]) /\ ValInit0 /\ FeedInit /\ OgInit0
    /\ CounterInit0 /\ ThemeInit0

SpecFeed == InitFeed /\ [][NextFeed]_vars

-----------------------------------------------------------------------------
(* Properties of the feed *)

\* the input posts whose item (found by its link) is in the feed
InFeed(post) ==
    \E j \in 1..Len(feedItems) : feedItems[j].link = "/blog/" \o post.slug \o "/"

\* position of the input post an item was made from
SourceIndex(item) ==
    CHOOSE i \in 1..Len(feedPosts) :
        item.link = "/blog/" \o feedPosts[i].slug \o "/"

\* C15: no post with draft = true is in a production feed; outside
\* production every input post is in the feed; a post whose draft is false
\* or undefined is never removed.
C15_DraftFiltering ==
    feedDone =>
        \A i \in 1..Len(feedPosts) :
            LET post == feedPosts[i]
            IN  /\ (feedProd /\ post.data.draft = <<TRUE>>) => ~InFeed(post)
                /\ ~feedProd => InFeed(post)
                /\ post.data.draft # <<TRUE>> => InFeed(post)

\* a production feed of three posts that kept only the one without a draft
\* flag
C15_Witness ==
    /\ feedDone /\ feedProd
    /\ Len(feedPosts) = 3
    /\ Len(feedItems) = 1
    /\ feedPosts[SourceIndex(feedItems[1])].data.draft = <<>>

\* C16: no item is followed by one with a later date, and items with equal
\* dates are in the order their posts had in the input.
C16_SortedByDateDescending ==
    feedDone =>
        \A j, k \in 1..Len(feedItems) :
            j < k =>
                /\ feedItems[j].pubDate >= feedItems[k].pubDate
                /\ feedItems[j].pubDate = feedItems[k].pubDate
                      => SourceIndex(feedItems[j]) < SourceIndex(feedItems[k])

\* posts dated 2024-01-01, 2024-06-15, 2024-03-15 came out as June, March,
\* January
C16_Witness ==
    /\ feedDone
    /\ Len(feedPosts) = 3
    /\ [i \in 1..3 |-> feedPosts[i].data.date] = <<19723, 19889, 19797>>
    /\ Len(feedItems) = 3
    /\ [i \in 1..3 |-> feedItems[i].pubDate] = <<19889, 19797, 19723>>

\* C17: an item's description is the post's excerpt when present, else its
\* description when present, else ""; its categories are the post's or the
\* empty list; its author is the post's or the site author.
C17_ItemDefaults ==
    feedDone =>
        \A j \in 1..Len(feedItems) :
            LET item == feedItems[j]
                data == feedPosts[SourceIndex(item)].data
            IN  /\ data.excerpt # <<>> => item.description = data.excerpt[1]
                /\ (data.excerpt = <<>> /\ data.description # <<>>)
                      => item.description = data.description[1]
                /\ (data.excerpt = <<>> /\ data.description = <<>>)
                      => item.description = ""
                /\ data.categories # <<>> => item.categories = data.categories[1]
                /\ data.categories = <<>> => item.categories = <<>>
                /\ data.author # <<>> => item.author = data.author[1]
                /\ data.author = <<>> => item.author = "Your Name"

\* a post with no excerpt, no categories and no author got its description
\* and the defaults
C17_Witness ==
    /\ feedDone
    /\ Len(feedItems) = 1
    /\ feedPosts[1].data.excerpt = <<>>
    /\ feedPosts[1].data.categories = <<>>
    /\ feedPosts[1].data.author = <<>>
    /\ feedItems[1].description = "This is SEO description"
    /\ feedItems[1].author = "Your Name"

\* the posts the draft filter keeps
RetainedIndices ==
    {i \in 1..Len(feedPosts) :
        ~(feedProd /\ feedPosts[i].data.draft = <<TRUE>>)}

\* C18: the feed has as many items as posts pass the draft filter, and each
\* of those posts has exactly one item, with the link /blog/<slug>/ and the
\* post's title and date.
C18_OneItemPerPost ==
    feedDone =>
        /\ Len(feedItems) = Cardinality(RetainedIndices)
        /\ \A i \in RetainedIndices :
              LET post == feedPosts[i]
                  mine == {j \in 1..Len(feedItems) :
                              feedItems[j].link = "/blog/" \o post.slug \o "/"}
              IN  /\ Cardinality(mine) = 1
                  /\ \A j \in mine : /\ feedItems[j].title = post.data.title
                                     /\ feedItems[j].pubDate = post.data.date

\* a production feed of two items made from three posts
C18_Witness ==
    /\ feedDone /\ feedProd
    /\ Len(feedPosts) = 3
    /\ Len(feedItems) = 2
    /\ feedItems[1].link = "/blog/post-3/"

-----------------------------------------------------------------------------
(* Social-image endpoint, src/unnamed/part_011 *)

WIDTH  == 1200
HEIGHT == 630

\* SITE.title, SITE.tagline, and the host of SITE.url (src/src/data/site.ts)
SiteTitle    == "YOUR BUSINESS NAME"
SiteTagline  ==
    "Your compelling tagline goes here. Keep it short and focused on your value proposition."
SiteHostname == "yourdomain.com"

STATIC_PAGES ==
    << [slug |-> "home",     title |-> "Home",           category |-> SiteTagline],
       [slug |-> "about",    title |-> "About Us",       category |-> "Company"],
       [slug |-> "services", title |-> "Our Services",   category |-> "Services"],
       [slug |-> "contact",  title |-> "Contact Us",     category |-> "Contact"],
       [slug |-> "pricing",  title |-> "Pricing",        category |-> "Plans"],
       [slug |-> "blog",     title |-> "Blog",           category |-> "Insights"],
       [slug |-> "privacy",  title |-> "Privacy Policy", category |-> "Legal"] >>

\* ({ data }) => !data.draft
OgFilter(data) == ~(data.draft = Some(TRUE))

\* Fault-injected variant of BlogPathSlug: the blog/ prefix is missing.
BlogPathSlug_NoPrefix(slug) == slug

\* `blog/${post.slug}`
BlogPathSlug(slug) == "blog/" \o slug

\* [...blogPaths, ...staticPaths]
StaticPathsOf(posts) ==
    LET blogPosts   == SelectSeq(posts, LAMBDA post : OgFilter(post.data))
        blogPaths   == [i \in 1..Len(blogPosts) |->
                          [params |-> [slug |-> BlogPathSlug(blogPosts[i].slug)],
                           props  |-> [isStaticPage |-> FALSE,
                                       post         |-> Some(blogPosts[i]),
                                       staticPage   |-> Absent]]]
        staticPaths == [i \in 1..Len(STATIC_PAGES) |->
                          [params |-> [slug |-> STATIC_PAGES[i].slug],
                           props  |-> [isStaticPage |-> TRUE,
                                       post         |-> Absent,
                                       staticPage   |-> Some(STATIC_PAGES[i])]]]
    IN  blogPaths \o staticPaths

\* Fault-injected variant of FontSize: the steps are taken one character
\* early.
FontSize_StepsEarly(title) ==
    IF Len(title) >= 60 THEN 48 ELSE IF Len(title) >= 40 THEN 56 ELSE 64

\* title.length > 60 ? 48 : title.length > 40 ? 56 : 64
FontSize(title) ==
    IF Len(title) > 60 THEN 48 ELSE IF Len(title) > 40 THEN 56 ELSE 64

\* the markup tree, reduced to the parts that are not literals
createOgImage(title, category) ==
    [fontSize  |-> FontSize(title),
     category  |-> category,
     title     |-> title,
     siteTitle |-> SiteTitle,
     tagline   |-> SiteTagline,
     hostname  |-> SiteHostname]

\* satori(markup, options): an SVG of the size the options give
Satori(markup, options) ==
    [width |-> options.width, height |-> options.height, markup |-> markup]

\* new Resvg(svg, { fitTo: { mode: 'width', value } }).render().asPng():
\* the SVG scaled to the given width
ResvgPng(svg, fitWidth) ==
    [width  |-> fitWidth,
     height |-> (svg.height * fitWidth) \div svg.width,
     markup |-> svg.markup]

\* const { categories = [] } = post.data; categories[0] || 'Blog'
PostCategory(data) ==
    LET categories == Coalesce(data.categories, <<>>)
    IN  IF Len(categories) = 0 \/ categories[1] = "" THEN "Blog"
        ELSE categories[1]

\* the response GET returns for the given props
OgResponseOf(props) ==
    IF ~props.isStaticPage /\ props.post = Absent
    THEN [status |-> 404, contentType |-> "text/plain;charset=UTF-8",
          body |-> "Post not found"]
    ELSE LET title    == IF props.isStaticPage THEN props.staticPage[1].title
                         ELSE props.post[1].data.title
             category == IF props.isStaticPage THEN props.staticPage[1].category
                         ELSE PostCategory(props.post[1].data)
             options  == [width |-> WIDTH, height |-> HEIGHT]
             svg      == Satori(createOgImage(title, category), options)
         IN  [status |-> 200, contentType |-> "image/png",
              body |-> ResvgPng(svg, WIDTH)]

\* bound on the length of the titles tried at every length
MaxTitleLen == 62

RECURSIVE TitleOfLength(_)
TitleOfLength(n) == IF n = 0 THEN "" ELSE TitleOfLength(n - 1) \o "a"

OgSlugInputs  == <<"home", "getting-started-with-astro">>
OgTitleInputs ==
    {"Blog", "Getting Started with Astro: A Complete Guide for Beginners"}
OgCategoryInputs ==
    {Absent, Some(<<"">>), Some(<<"Insights">>), Some(<<"Insights", "Tutorials">>)}

OgPost(slug, title, draft, categories) ==
    [slug |-> slug,
     data |-> [title |-> title, date |-> 19889, draft |-> draft,
               excerpt |-> Absent, description |-> Absent,
               categories |-> categories, author |-> Some(SiteAuthor)]]

OgPostsAt(slug) ==
    {OgPost(slug, title, draft, categories) :
        title \in OgTitleInputs, draft \in DraftInputs,
        categories \in OgCategoryInputs}

\* collections with at most one post per slug
RECURSIVE OgCollections(_)
OgCollections(slugs) ==
    IF slugs = <<>> THEN {<<>>}
    ELSE LET rest == OgCollections(Tail(slugs))
         IN  rest \cup {<<p>> \o c : p \in OgPostsAt(Head(slugs)), c \in rest}

\* one-post collections with a title of every length up to MaxTitleLen
TitleLengthCollections ==
    {<<OgPost("getting-started-with-astro", TitleOfLength(n), Some(FALSE),
              Some(<<"Tutorials">>))>> : n \in 0..MaxTitleLen}

OgInputs == OgCollections(OgSlugInputs) \cup TitleLengthCollections

OgInit ==
    /\ ogPosts \in OgInputs
    /\ ogPathsDone = FALSE
    /\ ogPaths = <<>>
    /\ ogRequest = 0
    /\ ogResponse = Absent
    /\ ogPrevResponse = Absent

\* export async function getStaticPaths()
getStaticPaths ==
    /\ ~ogPathsDone
    /\ ogPathsDone' = TRUE
    /\ ogPaths' = StaticPathsOf(ogPosts)
    /\ UNCHANGED <<ogPosts, ogRequest, ogResponse, ogPrevResponse,
                   formVars, valVars, feedVars,
                   counterVars, themeVars>>

\* export async function GET({ props }), for one of the generated paths
OgGET(i) ==
    /\ ogPathsDone
    /\ i \in 1..Len(ogPaths)
    /\ ogRequest' = i
    /\ ogResponse' = Some(OgResponseOf(ogPaths[i].props))
    /\ ogPrevResponse' = ogResponse
    /\ UNCHANGED <<ogPosts, ogPathsDone, ogPaths, formVars, valVars, feedVars,
                   counterVars, themeVars>>

NextOg ==
    \/ getStaticPaths
    \/ \E i \in 1..Len(ogPaths) : OgGET(i)

InitOg ==
    /\ FormInitWith([k \in {} |-> <<>>]) /\ ValInit0 /\ FeedInit0 /\ OgInit
    /\ CounterInit0 /\ ThemeInit0

SpecOg == InitOg /\ [][NextOg]_vars

-----------------------------------------------------------------------------
(* Properties of the social-image endpoint *)

\* the generated paths with the given slug parameter
PathsWithSlug(slug) == {i \in 1..Len(ogPaths) : ogPaths[i].params.slug = slug}

StaticPagesHaveOnePath ==
    \A k \in 1..Len(STATIC_PAGES) :
        Cardinality(PathsWithSlug(STATIC_PAGES[k].slug)) = 1

PathsDistinct ==
    \A i, j \in 1..Len(ogPaths) :
        i # j => ogPaths[i].params.slug # ogPaths[j].params.slug

SteppedFontSize(title) ==
    IF Len(title) <= 40 THEN 64 ELSE IF Len(title) <= 60 THEN 56 ELSE 48

\* C20: a rendered image is 1200 by 630, its title font size is 64 up to 40
\* characters, 56 from 41 to 60 and 48 above 60, a longer title never has a
\* larger font size than a shorter one, and two renders with the same title
\* and category give the same image.
C20_FontSizeAndDimensions ==
    (ogResponse # <<>> /\ ogResponse[1].status = 200) =>
        LET image == ogResponse[1].body
        IN  /\ image.width = 1200
            /\ image.height = 630
            /\ image.markup.fontSize = SteppedFontSize(image.markup.title)
            /\ (ogPrevResponse # <<>> /\ ogPrevResponse[1].status = 200) =>
                  LET prev == ogPrevResponse[1].body
                  IN  /\ Len(prev.markup.title) <= Len(image.markup.title)
                          => prev.markup.fontSize >= image.markup.fontSize
                      /\ (prev.markup.title = image.markup.title /\
                          prev.markup.category = image.markup.category)
                          => prev = image

\* a 61-character title rendered at 48 after a static page rendered at 64
C20_Witness ==
    /\ ogResponse # <<>> /\ ogPrevResponse # <<>>
    /\ ogRequest = 1
    /\ Len(ogResponse[1].body.markup.title) = 61
    /\ ogResponse[1].body.markup.fontSize = 48
    /\ ogPrevResponse[1].body.markup.fontSize = 64
    /\ ogResponse[1].body.width = 1200

-----------------------------------------------------------------------------
(* AnimatedCounter, src/postcss.config.cjs *)

\* Numbers are exact rationals in lowest terms; the times the model uses
\* keep every value the component computes rational.
Abs(n) == IF n < 0 THEN -n ELSE n

GCD[a \in Nat, b \in Nat] == IF b = 0 THEN a ELSE GCD[b, a % b]

Reduce(num, den) ==
    LET g == GCD[Abs(num), den]
    IN  Rat(num \div g, den \div g)

\* the operands are bound once, then reduced
Norm(r) == CHOOSE q \in {Reduce(x.num, x.den) : x \in {r}} : TRUE

RatAdd(a, b) ==
    CHOOSE q \in {Reduce(x.num * y.den + y.num * x.den, x.den * y.den) :
                    x \in {a}, y \in {b}} : TRUE
RatSub(a, b) ==
    CHOOSE q \in {Reduce(x.num * y.den - y.num * x.den, x.den * y.den) :
                    x \in {a}, y \in {b}} : TRUE
RatMul(a, b) ==
    CHOOSE q \in {Reduce(x.num * y.num, x.den * y.den) :
                    x \in {a}, y \in {b}} : TRUE
RatLess(a, b) == a.num * b.den < b.num * a.den
RatInt(n)     == Rat(n, 1)

RECURSIVE Pow2(_)
Pow2(k) == IF k = 0 THEN 1 ELSE 2 * Pow2(k - 1)

\* (t) => t
linear(t) == t

\* (t) => t * t
easeIn(t) == RatMul(t, t)

\* (t) => 1 - (1 - t) * (1 - t)
easeOut(t) ==
    RatSub(RatInt(1), RatMul(RatSub(RatInt(1), t), RatSub(RatInt(1), t)))

\* (t) => t < 0.5 ? 2 * t * t : 1 - Math.pow(-2 * t + 2, 2) / 2
easeInOut(t) ==
    IF RatLess(t, Rat(1, 2))
    THEN RatMul(RatInt(2), RatMul(t, t))
    ELSE LET u == RatAdd(RatMul(RatInt(-2), t), RatInt(2))
         IN  RatSub(RatInt(1), RatMul(RatMul(u, u), Rat(1, 2)))

\* (t) => 1 - Math.pow(1 - t, 3)
easeOutCubic(t) ==
    LET u == RatSub(RatInt(1), t)
    IN  RatSub(RatInt(1), RatMul(u, RatMul(u, u)))

\* (t) => t === 1 ? 1 : 1 - Math.pow(2, -10 * t), for t with 10 * t whole
easeOutExpo(t) ==
    IF t = RatInt(1) THEN RatInt(1)
    ELSE RatSub(RatInt(1), Rat(1, Pow2((10 * t.num) \div t.den)))

EasingNames ==
    {"linear", "easeIn", "easeOut", "easeInOut", "easeOutCubic", "easeOutExpo"}

\* easingFunctions[easing] || easingFunctions.easeOutCubic, applied to t
Eased(easing, t) ==
    CASE easing = "linear"      -> linear(t)
      [] easing = "easeIn"      -> easeIn(t)
      [] easing = "easeOut"     -> easeOut(t)
      [] easing = "easeInOut"   -> easeInOut(t)
      [] easing = "easeOutExpo" -> easeOutExpo(t)
      [] OTHER                  -> easeOutCubic(t)

\* elapsed / duration is NaN for 0 / 0
ProgressIsNaN(elapsed, duration) == duration = 0 /\ elapsed = 0

\* Math.min(elapsed / duration, 1), when it is a number
Progress(elapsed, duration) ==
    IF duration = 0 \/ elapsed >= duration THEN RatInt(1)
    ELSE Norm(Rat(elapsed, duration))

\* startValue + (value - startValue) * easedProgress
CurrentValue(props, easedProgress) ==
    RatAdd(RatInt(props.startValue),
           RatMul(RatInt(props.value - props.startValue), easedProgress))

\* the ids an optional id holds
Ids(opt) == {opt[i] : i \in 1..Len(opt)}

\* requestAnimationFrame and setTimeout return an id no pending callback
\* and no holder has
FreshId(used) ==
    CHOOSE n \in 1..(Cardinality(used) + 1) :
        n \notin used /\ \A m \in 1..(n - 1) : m \in used

\* the component's state, refs, and the callbacks it has registered
Counter ==
    [displayValue         |-> displayValue,
     hasAnimated          |-> hasAnimated,
     isVisible            |-> isVisible,
     prefersReducedMotion |-> prefersReducedMotion,
     animationRef         |-> animationRef,
     startTimeRef         |-> startTimeRef,
     mountedRef           |-> mountedRef,
     pendingFrames        |-> pendingFrames,
     pendingTimers        |-> pendingTimers,
     startCleanup         |-> startCleanup,
     observing            |-> observing,
     observerHasAnimated  |-> observerHasAnimated,
     observerInitial      |-> observerInitial,
     motionListening      |-> motionListening]

SetCounter(c) ==
    /\ displayValue' = c.displayValue
    /\ hasAnimated' = c.hasAnimated
    /\ isVisible' = c.isVisible
    /\ prefersReducedMotion' = c.prefersReducedMotion
    /\ animationRef' = c.animationRef
    /\ startTimeRef' = c.startTimeRef
    /\ mountedRef' = c.mountedRef
    /\ pendingFrames' = c.pendingFrames
    /\ pendingTimers' = c.pendingTimers
    /\ startCleanup' = c.startCleanup
    /\ observing' = c.observing
    /\ observerHasAnimated' = c.observerHasAnimated
    /\ observerInitial' = c.observerInitial
    /\ motionListening' = c.motionListening

\* requestAnimationFrame(animate), the id stored in animationRef
RequestFrame(c) ==
    LET id == FreshId(c.pendingFrames \cup Ids(c.animationRef))
    IN  [c EXCEPT !.pendingFrames = @ \cup {id}, !.animationRef = Some(id)]

\* observer.disconnect()
ObserverCleanup(c) ==
    [c EXCEPT !.observing = FALSE, !.observerInitial = FALSE]

\* new IntersectionObserver(callback, ...); observer.observe(element)
ObserverEffect(c) ==
    [c EXCEPT !.observing = TRUE,
              !.observerHasAnimated = c.hasAnimated,
              !.observerInitial = TRUE]

\* entries.forEach: if (entry.isIntersecting && !hasAnimated) setIsVisible(true)
ObserverCallback(c, isIntersecting) ==
    IF isIntersecting /\ ~c.observerHasAnimated
    THEN [c EXCEPT !.isVisible = TRUE]
    ELSE c

\* Fault-injected variant of StartEffectCleanup: the timer is not cleared.
StartEffectCleanup_KeepsTimer(c) ==
    [c EXCEPT !.pendingFrames = @ \ Ids(c.animationRef),
              !.startCleanup = Absent]

\* clearTimeout(timeoutId); if (animationRef.current) cancelAnimationFrame(...)
StartEffectCleanup(c) ==
    [c EXCEPT !.pendingTimers = @ \ Ids(c.startCleanup),
              !.pendingFrames = @ \ Ids(c.animationRef),
              !.startCleanup = Absent]

\* Fault-injected variant of ShouldStartAnimation: hasAnimated is ignored.
ShouldStartAnimation_IgnoresHasAnimated(c) ==
    c.isVisible /\ ~c.prefersReducedMotion

\* isVisible && !hasAnimated && !prefersReducedMotion
ShouldStartAnimation(c) ==
    c.isVisible /\ ~c.hasAnimated /\ ~c.prefersReducedMotion

\* the start effect: setTimeout(..., delay), and its cleanup is kept
StartEffect(c) ==
    IF ShouldStartAnimation(c)
    THEN LET id == FreshId(c.pendingTimers)
         IN  [c EXCEPT !.pendingTimers = @ \cup {id}, !.startCleanup = Some(id)]
    ELSE c

\* A render is committed: the effects whose dependencies changed since the
\* last commit run (cleanups first, then bodies, in source order), and the
\* state the reduced-motion effect sets is committed in turn.
RECURSIVE Commit(_, _)
Commit(old, c) ==
    LET motionDeps   == <<c.prefersReducedMotion, c.hasAnimated>>
                        # <<old.prefersReducedMotion, old.hasAnimated>>
        observerDeps == c.hasAnimated # old.hasAnimated
        startDeps    == <<c.isVisible, c.hasAnimated, c.prefersReducedMotion>>
                        # <<old.isVisible, old.hasAnimated, old.prefersReducedMotion>>
        c1 == IF observerDeps THEN ObserverCleanup(c) ELSE c
        c2 == IF startDeps /\ c1.startCleanup # Absent
              THEN StartEffectCleanup(c1) ELSE c1
        c3 == IF observerDeps THEN ObserverEffect(c2) ELSE c2
        c4 == IF startDeps THEN StartEffect(c3) ELSE c3
    IN  IF motionDeps /\ c.prefersReducedMotion /\ ~c.hasAnimated
        THEN Commit(c4, [c4 EXCEPT !.displayValue = RatInt(counterProps.value),
                                   !.hasAnimated = TRUE])
        ELSE c4

\* the state after the updates `new` are rendered and committed; the
\* updated state is bound once
CommitTo(old, new) ==
    \E updated \in {new} :
        \E committed \in {Commit(old, updated)} : SetCounter(committed)

\* mediaQuery.matches, then the reduce-motion class on html or body
ReducedMotionAtMount == motionMatches \/ reduceMotionClass

\* the animate callback
animate(c) ==
    IF ~c.mountedRef THEN c
    ELSE LET start    == IF c.startTimeRef = Absent THEN clock
                         ELSE c.startTimeRef[1]
             elapsed  == clock - start
             duration == counterProps.duration
             nan      == ProgressIsNaN(elapsed, duration)
             progress == Progress(elapsed, duration)
             started  == [c EXCEPT !.startTimeRef = Some(start)]
         IN  IF ~nan /\ RatLess(progress, RatInt(1))
             THEN RequestFrame(
                    [started EXCEPT !.displayValue =
                        CurrentValue(counterProps,
                                     Eased(counterProps.easing, progress))])
             ELSE [started EXCEPT !.displayValue = RatInt(counterProps.value),
                                  !.hasAnimated = TRUE]

\* the effects of the first render, and the commit of the state they set
CounterMount ==
    /\ counterPhase = "rendered"
    /\ counterPhase' = "mounted"
    /\ LET c0 == Counter
           c1 == [c0 EXCEPT !.motionListening = TRUE]
           c2 == ObserverEffect(c1)
           c3 == StartEffect(c2)
           c4 == [c3 EXCEPT !.mountedRef = TRUE]
       IN  CommitTo(c4, [c4 EXCEPT !.prefersReducedMotion =
                                    ReducedMotionAtMount])
    /\ UNCHANGED <<counterProps, motionMatches, reduceMotionClass, intersecting,
                   clock, formVars, valVars, feedVars, ogVars, themeVars>>

\* the media query changes; handleChange runs if it is attached
MotionPreferenceChange ==
    /\ motionMatches' = ~motionMatches
    /\ IF motionListening
       THEN CommitTo(Counter,
                [Counter EXCEPT !.prefersReducedMotion = ~motionMatches])
       ELSE SetCounter(Counter)
    /\ UNCHANGED <<counterProps, counterPhase, reduceMotionClass, intersecting,
                   clock, formVars, valVars, feedVars, ogVars, themeVars>>

\* a script adds the reduce-motion class to html or body, or removes it
ReduceMotionClassChange ==
    /\ reduceMotionClass' = ~reduceMotionClass
    /\ SetCounter(Counter)
    /\ UNCHANGED <<counterProps, counterPhase, motionMatches, intersecting,
                   clock, formVars, valVars, feedVars, ogVars, themeVars>>

\* the element enters or leaves the viewport; a connected observer is told
ViewportChange ==
    /\ intersecting' = ~intersecting
    /\ IF observing
       THEN CommitTo(Counter, ObserverCallback(Counter, ~intersecting))
       ELSE SetCounter(Counter)
    /\ UNCHANGED <<counterProps, counterPhase, motionMatches, reduceMotionClass,
                   clock, formVars, valVars, feedVars, ogVars, themeVars>>

\* the first notification of a newly connected observer
ObserverFirstNotification ==
    /\ observing /\ observerInitial
    /\ LET c == [Counter EXCEPT !.observerInitial = FALSE]
       IN  CommitTo(c, ObserverCallback(c, intersecting))
    /\ UNCHANGED <<counterProps, counterPhase, motionMatches, reduceMotionClass,
                   intersecting, clock, formVars, valVars, feedVars, ogVars,
                   themeVars>>

\* Fault-injected variant of DelayTimerFires: no frame is requested.
DelayTimerFires_NoFrame(id) ==
    /\ id \in pendingTimers
    /\ SetCounter([Counter EXCEPT !.pendingTimers = @ \ {id},
                                  !.startTimeRef = Absent])
    /\ UNCHANGED <<counterProps, counterPhase, motionMatches, reduceMotionClass,
                   intersecting, clock, formVars, valVars, feedVars, ogVars,
                   themeVars>>

\* the setTimeout callback of the start effect
DelayTimerFires(id) ==
    /\ id \in pendingTimers
    /\ SetCounter(RequestFrame([Counter EXCEPT !.pendingTimers = @ \ {id},
                                               !.startTimeRef = Absent]))
    /\ UNCHANGED <<counterProps, counterPhase, motionMatches, reduceMotionClass,
                   intersecting, clock, formVars, valVars, feedVars, ogVars,
                   themeVars>>

\* a requested animation frame runs animate
AnimationFrame(id) ==
    /\ id \in pendingFrames
    /\ LET c == [Counter EXCEPT !.pendingFrames = @ \ {id}]
       IN  CommitTo(c, animate(c))
    /\ UNCHANGED <<counterProps, counterPhase, motionMatches, reduceMotionClass,
                   intersecting, clock, formVars, valVars, feedVars, ogVars,
                   themeVars>>

\* time passes; it is only read by animate, between the first frame and the
\* last
Tick ==
    /\ counterPhase = "mounted"
    /\ ~hasAnimated
    /\ startTimeRef # Absent
    /\ clock - startTimeRef[1] <= counterProps.duration
    /\ clock' = clock + 1
    /\ SetCounter(Counter)
    /\ UNCHANGED <<counterProps, counterPhase, motionMatches, reduceMotionClass,
                   intersecting, formVars, valVars, feedVars, ogVars, themeVars>>

\* the component is removed: every effect's cleanup runs, in source order
CounterUnmount ==
    /\ counterPhase = "mounted"
    /\ counterPhase' = "unmounted"
    /\ LET c1 == [Counter EXCEPT !.motionListening = FALSE]
           c2 == ObserverCleanup(c1)
           c3 == IF c2.startCleanup # Absent THEN StartEffectCleanup(c2) ELSE c2
           c4 == [c3 EXCEPT !.mountedRef = FALSE,
                            !.pendingFrames = @ \ Ids(c3.animationRef),
                            !.animationRef = Absent]
       IN  SetCounter(c4)
    /\ UNCHANGED <<counterProps, motionMatches, reduceMotionClass, intersecting,
                   clock, formVars, valVars, feedVars, ogVars, themeVars>>

\* durations in clock steps; each divides 10, so easeOutExpo stays rational
DurationInputs == {0, 2, 5}

\* props of the counters tried: counting up, counting down, every easing
\* and a name that is none of them
CounterPropsInputs ==
    {CounterProps(range[1], range[2], duration, easing) :
        range \in {<<100, 0>>, <<5, 20>>},
        duration \in DurationInputs,
        easing \in EasingNames \cup {"bounce"}}

CounterInit ==
    \E props \in CounterPropsInputs, matches \in BOOLEAN, class \in BOOLEAN :
        CounterInitWith(props, matches, class)

NextCounter ==
    \/ CounterMount
    \/ MotionPreferenceChange
    \/ ReduceMotionClassChange
    \/ ViewportChange
    \/ ObserverFirstNotification
    \/ \E id \in pendingTimers : DelayTimerFires(id)
    \/ \E id \in pendingFrames : AnimationFrame(id)
    \/ Tick
    \/ CounterUnmount

InitCounter ==
    /\ FormInitWith([k \in {} |-> <<>>]) /\ ValInit0 /\ FeedInit0 /\ OgInit0
    /\ CounterInit /\ ThemeInit0

SpecCounter == InitCounter /\ [][NextCounter]_vars

\* a set timer fires, a requested frame runs, and time passes
FairSpecCounter ==
    /\ SpecCounter
    /\ WF_vars(\E id \in pendingTimers : DelayTimerFires(id))
    /\ WF_vars(\E id \in pendingFrames : AnimationFrame(id))
    /\ WF_vars(Tick)

-----------------------------------------------------------------------------
(* Properties of AnimatedCounter *)

TargetValue == Rat(counterProps.value, 1)

\* C21: once hasAnimated is true it stays true, no animation frame or delay
\* timer is pending or gets requested, and displayValue does not change,
\* whatever the viewport and the reduced-motion preference do afterwards.
C21_AnimatesAtMostOnce ==
    /\ [](hasAnimated => (pendingFrames = {} /\ pendingTimers = {}))
    /\ [][hasAnimated =>
            /\ hasAnimated'
            /\ displayValue' = displayValue
            /\ pendingFrames' \subseteq pendingFrames
            /\ pendingTimers' \subseteq pendingTimers]_vars

\* a counter that ran its animation to the end and then left the viewport,
\* with motion allowed: it can re-enter
C21_Witness ==
    /\ counterPhase = "mounted"
    /\ hasAnimated /\ isVisible
    /\ startTimeRef # <<>>
    /\ ~prefersReducedMotion /\ ~motionMatches
    /\ ~intersecting

\* C22: while the component is mounted and reduced motion is preferred (the
\* media query matches or html/body has the reduce-motion class), the final
\* value is shown, hasAnimated is true and no delay timer or animation frame
\* is pending.
C22_ReducedMotionShowsFinalValue ==
    (counterPhase = "mounted" /\ (motionMatches \/ reduceMotionClass)) =>
        /\ displayValue = TargetValue
        /\ hasAnimated
        /\ pendingFrames = {}
        /\ pendingTimers = {}

\* the values startValue + (value - startValue) * eased(progress) for the
\* progress values in [0, 1] that the clock can produce
ValuesOnCurve ==
    LET d    == counterProps.duration
        grid == IF d = 0 THEN {Rat(0, 1)} ELSE {Norm(Rat(e, d)) : e \in 0..d}
    IN  {CurrentValue(counterProps, Eased(counterProps.easing, t)) : t \in grid}

\* C23: a visible counter that stays mounted eventually has hasAnimated true
\* and shows exactly the target value; whenever hasAnimated is true the
\* target value is shown, and until then the displayed value is
\* startValue + (value - startValue) * eased(progress) for a progress in
\* [0, 1].
C23_AnimationCompletes ==
    /\ [](hasAnimated => displayValue = TargetValue)
    /\ [](~hasAnimated => displayValue \in ValuesOnCurve)
    /\ (counterPhase = "mounted" /\ isVisible)
          ~> (counterPhase = "unmounted"
              \/ (hasAnimated /\ displayValue = TargetValue))

\* an animation of 5 clock steps that ran to its end
C23_Witness ==
    /\ counterPhase = "mounted"
    /\ counterProps.duration = 5
    /\ isVisible /\ hasAnimated /\ ~prefersReducedMotion
    /\ startTimeRef # <<>>
    /\ clock - startTimeRef[1] >= 5
    /\ displayValue = TargetValue
    /\ pendingFrames = {}

\* C24: after the unmount no state changes and no animation frame or delay
\* timer is added.
C24_NothingAfterUnmount ==
    [][counterPhase = "unmounted" =>
         /\ UNCHANGED <<displayValue, hasAnimated, isVisible,
                        prefersReducedMotion>>
         /\ pendingFrames' \subseteq pendingFrames
         /\ pendingTimers' \subseteq pendingTimers]_vars

\* a counter unmounted in the middle of its animation, its frame cancelled
C24_Witness ==
    /\ counterPhase = "unmounted"
    /\ isVisible /\ ~hasAnimated
    /\ startTimeRef # <<>>
    /\ displayValue # Rat(counterProps.startValue, 1)
    /\ ~mountedRef
    /\ pendingFrames = {} /\ pendingTimers = {}

-----------------------------------------------------------------------------
(* ContactForm: what is rendered from the state *)

\* Object.values(errors).some(Boolean) && touched.name && touched.email
\* && touched.message
errorSummaryShown ==
    /\ \E f \in RequiredFields : errors[f] # Undefined
    /\ touched["name"] /\ touched["email"] /\ touched["message"]

\* {status === "error" && <p>{errorMessage}</p>}: the banner text on screen
errorBannerText == IF status = "error" THEN errorMessage ELSE ""

\* charCount, maxChars and the tests on charPercent = charCount / maxChars * 100
charCount(message) == Len(message)
maxChars == MessageMaxLength
CharPercentAtLeast(message, percent) ==
    charCount(message) * 100 >= percent * maxChars
isWarning(message) ==
    CharPercentAtLeast(message, 90) /\ ~CharPercentAtLeast(message, 100)
isError(message) == CharPercentAtLeast(message, 100)

\* the threshold the announcement effect computes
CharThreshold(message) ==
    IF CharPercentAtLeast(message, 100) THEN "exceeded"
    ELSE IF CharPercentAtLeast(message, 95) THEN "95"
    ELSE IF CharPercentAtLeast(message, 90) THEN "90"
    ELSE "null"

-----------------------------------------------------------------------------
(* Further properties of the contact form *)

\* Only handleSubmit sets errorAnnouncement, to a non-empty text when
\* validation fails and to "" when it passes, so these two tell whether a
\* submit has happened.
SubmitHasOccurred == validSubmits > 0 \/ errorAnnouncement # ""

\* C25: whenever the error summary is rendered, a submit has occurred before
\* and at least one required field has an error.
C25_SummaryOnlyAfterSubmit ==
    errorSummaryShown =>
        /\ SubmitHasOccurred
        /\ \E f \in RequiredFields : errors[f] # Undefined

\* C27: the error message is non-empty exactly when status is error.
C27_BannerIffError ==
    /\ errorMessage # "" <=> status = "error"
    /\ errorBannerText # "" <=> status = "error"

\* a resubmit after a failed request: submitting again, message cleared
C27_Witness ==
    /\ status = "submitting"
    /\ requestCount = 2
    /\ lastOutcome \in {"not_ok", "rejected"}
    /\ errorMessage = ""

\* C28: for a validated message, the counter is in its exceeded state only
\* if the validator rejects the message as too long, and a message whose
\* length the validator accepts does not put the counter in that state.
C28_CounterAgreesWithValidator ==
    (vField = "message" /\ vResult # NotRun) =>
        /\ isError(vValue)
              => vResult = "Message must be less than 2000 characters"
        /\ CharThreshold(vValue) = "exceeded"
              => vResult = "Message must be less than 2000 characters"
        /\ vResult = Undefined => ~isError(vValue)

\* C30: while status is submitting the values in the request body are the
\* form values, and no step that stays in submitting changes the form data.
C30_FormDataFrozenWhileSubmitting ==
    /\ [](status = "submitting" =>
            \A f \in {"name", "email", "service", "message"} :
                f \in DOMAIN body /\ body[f] = formData[f])
    /\ [][(status = "submitting" /\ status' = "submitting")
             => formData' = formData]_vars

\* a second request in flight, carrying the form values
C30_Witness ==
    /\ status = "submitting"
    /\ inFlight = 1
    /\ requestCount = 2
    /\ body["message"] = formData["message"]
    /\ body["name"] = formData["name"]

-----------------------------------------------------------------------------
(* ThemeToggle, src/src/components/ThemeToggle.tsx *)

\* getSystemTheme(), for the given state of (prefers-color-scheme: dark)
getSystemTheme(prefersDark) == IF prefersDark THEN "dark" ELSE "light"

\* applyTheme(t): the dark class after classList.toggle("dark", resolved === "dark")
applyTheme(t, prefersDark) ==
    LET resolved == IF t = "system" THEN getSystemTheme(prefersDark) ELSE t
    IN  resolved = "dark"

ThemeOrder == <<"light", "dark", "system">>

\* order.indexOf(t), counted from 0; -1 when t is not in the order
IndexInOrder(t) ==
    IF \E i \in 1..Len(ThemeOrder) : ThemeOrder[i] = t
    THEN (CHOOSE i \in 1..Len(ThemeOrder) : ThemeOrder[i] = t) - 1
    ELSE -1

\* Fault-injected variant of NextTheme: system is skipped.
NextTheme_SkipsSystem(t) == IF t = "light" THEN "dark" ELSE "light"

\* order[(order.indexOf(theme) + 1) % order.length]
NextTheme(t) == ThemeOrder[((IndexInOrder(t) + 1) % Len(ThemeOrder)) + 1]

\* Fault-injected variant of ListenerAfterCommit: the listener is never
\* removed.
ListenerAfterCommit_NeverRemoved(t, wasListening) ==
    wasListening \/ t = "system"

\* the effect with [theme]: its cleanup removes the listener, its body adds
\* one only in system mode
ListenerAfterCommit(t, wasListening) == t = "system"

\* the effect of the first render
ThemeMount ==
    /\ ~themeMounted
    /\ themeMounted' = TRUE
    /\ themeListening' = ListenerAfterCommit(theme, themeListening)
    /\ UNCHANGED <<theme, darkClass, storedTheme, storageAvailable, systemDark,
                   themeLastEvent, formVars, valVars, feedVars, ogVars,
                   counterVars>>

\* a click on the button: setTheme(next); applyTheme(next);
\* localStorage.setItem("theme", next), which throws when storage is
\* unavailable; the state update made before it is still rendered
cycle ==
    /\ themeMounted
    /\ theme' = NextTheme(theme)
    /\ darkClass' = applyTheme(NextTheme(theme), systemDark)
    /\ storedTheme' = IF storageAvailable THEN Some(NextTheme(theme))
                      ELSE storedTheme
    /\ themeListening' = ListenerAfterCommit(NextTheme(theme), themeListening)
    /\ themeLastEvent' = "click"
    /\ UNCHANGED <<themeMounted, storageAvailable, systemDark,
                   formVars, valVars, feedVars, ogVars, counterVars>>

\* the system colour scheme changes; handler runs if it is attached
SystemPreferenceChange ==
    /\ systemDark' = ~systemDark
    /\ darkClass' = IF themeListening THEN applyTheme("system", ~systemDark)
                    ELSE darkClass
    /\ themeLastEvent' = "system"
    /\ UNCHANGED <<theme, themeMounted, themeListening, storedTheme,
                   storageAvailable, formVars, valVars, feedVars, ogVars,
                   counterVars>>

\* what localStorage may hold under "theme"
StoredThemeInputs ==
    {Absent, Some("light"), Some("dark"), Some("system"), Some("auto"), Some("")}

ThemeInit ==
    \E stored \in StoredThemeInputs, available \in BOOLEAN,
       sysDark \in BOOLEAN, dark \in BOOLEAN :
        ThemeInitWith(stored, available, sysDark, dark)

NextTheming ==
    \/ ThemeMount
    \/ cycle
    \/ SystemPreferenceChange

InitTheme ==
    /\ FormInitWith([k \in {} |-> <<>>]) /\ ValInit0 /\ FeedInit0 /\ OgInit0
    /\ CounterInit0 /\ ThemeInit

SpecTheme == InitTheme /\ [][NextTheming]_vars

-----------------------------------------------------------------------------
(* Properties of ThemeToggle *)

\* C26: once mounted, the listener is attached exactly in system mode; in
\* system mode a system preference change makes the dark class equal to the
\* new preference, and in light or dark mode it leaves the dark class
\* unchanged.
C26_FollowsSystemOnlyInSystemMode ==
    /\ [](themeMounted => (themeListening <=> theme = "system"))
    /\ [][systemDark' # systemDark =>
            /\ (themeMounted /\ theme = "system") => darkClass' = systemDark'
            /\ theme \in {"light", "dark"} => darkClass' = darkClass]_vars

\* in system mode the system turned dark and the document followed
C26_Witness ==
    /\ themeMounted
    /\ theme = "system"
    /\ themeLastEvent = "system"
    /\ systemDark /\ darkClass

CycleSuccessor == [light |-> "dark", dark |-> "system", system |-> "light"]

ThreeClicksRestore ==
    \A t \in {"light", "dark", "system"} :
        CycleSuccessor[CycleSuccessor[CycleSuccessor[t]]] = t

StoredIsTheme ==
    storedTheme # <<>> /\ storedTheme[1] \in {"light", "dark", "system"}

MountYieldsLight ==
    (themeLastEvent = "none" /\ (~storageAvailable \/ ~StoredIsTheme))
        => theme = "light"

ClickAdvances ==
    /\ theme' = CycleSuccessor[theme]
    /\ darkClass' <=> \/ theme' = "dark"
                      \/ (theme' = "system" /\ systemDark')

\* C29 as stated: every click advances the cycle, leaves the stored value
\* equal to the theme and the dark class equal to the resolved theme. With
\* storage unavailable nothing is stored.
C29_ThemeCycleAsStated ==
    /\ [](ThreeClicksRestore /\ MountYieldsLight)
    /\ [][theme' # theme =>
            /\ ClickAdvances
            /\ storedTheme' = <<theme'>>]_vars

\* C29: every click advances the theme in the cycle light, dark, system,
\* light, so three clicks restore it; after a click the dark class is on
\* exactly when the resolved theme is dark; when storage is available the
\* stored value equals the theme after the click, and when it is not the
\* stored value is unchanged; on mount a stored value that is no theme, or
\* unavailable storage, gives light.
C29_ThemeCycle ==
    /\ [](ThreeClicksRestore /\ MountYieldsLight)
    /\ [][theme' # theme =>
            /\ ClickAdvances
            /\ storageAvailable => storedTheme' = <<theme'>>
            /\ ~storageAvailable => storedTheme' = storedTheme]_vars

\* a click into system mode under a dark system, stored
C29_Witness ==
    /\ themeLastEvent = "click"
    /\ theme = "system"
    /\ storageAvailable
    /\ storedTheme = <<"system">>
    /\ systemDark /\ darkClass

====
